---- MODULE Spec2Model ----
(***************************************************************************)
(* Checkout / order-lifecycle engine of the e-commerce backend.            *)
(*                                                                         *)
(* The document store holds three collections: products, carts, orders.    *)
(* Every request is served by a handler (an asyncio task).  A handler is   *)
(* suspended at every `await` on the store, so each action below is the    *)
(* code between two consecutive awaits of one handler: one store access    *)
(* followed by the pure Python code that runs until the next await.        *)
(* Handlers work on local copies of the documents they loaded.             *)
(***************************************************************************)
EXTENDS Integers, Sequences, FiniteSets, TLC

\* ------------------------------------------------------------------ bounds
MaxStock == 2        \* initial stock of a product is drawn from 0..MaxStock
MaxQty == 2          \* quantities of cart lines and of requested lines
MaxRequests == 3     \* number of requests served in one behaviour
MaxOrders == 2       \* no checkout request is accepted once this many orders exist
NumHandlers == 2     \* size of the pool of concurrent request handlers
MaxRetryRequests == 4   \* requests served in a behaviour that retries a cancel

\* ------------------------------------------------------------- identifiers
Handlers == 1..NumHandlers
ProductIds == {"A", "B"}
Users == {"alice", "admin"}
Customers == {"alice"}               \* the users who shop
Principals == Users \cup {"bob"}     \* every authenticated caller; bob owns nothing

NoDoc == [missing |-> TRUE]          \* result of a lookup that finds nothing

PENDING == "pending"
CONFIRMED == "confirmed"
SHIPPED == "shipped"
DELIVERED == "delivered"
CANCELLED == "cancelled"
OrderStatus == {PENDING, CONFIRMED, SHIPPED, DELIVERED, CANCELLED}

is_superuser(u) == u = "admin"

\* HTTP status of UnauthorizedException (app.utils.exceptions).
UnauthorizedStatus == 401

\* HTTP status of NotFoundException (app.utils.exceptions).
NotFoundStatus == 404

\* ------------------------------------------------------------- exceptions
NoExc == [type |-> "none", msg |-> "", arg |-> ""]
Exc(t, m, a) == [type |-> t, msg |-> m, arg |-> a]

\* pydantic's ValidationError is a subclass of ValueError
IsValueError(e) == e.type \in {"ValueError", "ValidationError"}

\* HTTP response of the order router for an exception raised by the service:
\* `except ValueError` -> 400, anything else is an unhandled server error.
HttpOfExc(e) == IF IsValueError(e) THEN 400 ELSE 500

\* The body of a response that the model does not look into.
NoBody == [items |-> <<>>, total_price |-> 0]

\* `at` is the position of the handler when the response was produced.
Response(code, e, at) == [code |-> code, exc |-> e, at |-> at, body |-> NoBody]
NoResponse == Response(0, NoExc, "")

\* ------------------------------------------------------------------ state
VARIABLES
    products,   \* collection "products": id -> document [name, price, stock]
    carts,      \* collection "carts": list of cart documents, id = position
    orders,     \* collection "orders": list of order documents, id = position
    pc,         \* position of every handler in its request
    req,        \* the request a handler is serving
    loc,        \* local variables of a handler (copies of loaded documents)
    resp,       \* the response of the handler's last finished request
    snap,       \* history: the store as it was when the handler's request began
    stock0,     \* history: the stock of every product in the initial state
    created,    \* history: id of the order the handler's request inserted, or 0
    applied,    \* history: the stock changes the handler's request has saved
    ledger,     \* history: every update_product call made on behalf of an order
    nreq        \* number of requests started so far

vars == <<products, carts, orders, pc, req, loc, resp, snap, stock0, created, applied,
          ledger, nreq>>

\* ------------------------------------------------------------ data shapes
Product(n, p, s) == [name |-> n, price |-> p, stock |-> s]

CartItem(pid, q, p) == [product_id |-> pid, quantity |-> q, price |-> p]

Cart(u, items) == [user_id |-> u, items |-> items]

OrderItemCreate(pid, q) == [product_id |-> pid, quantity |-> q]

OrderItem(pid, n, q, p) == [product_id |-> pid, name |-> n, quantity |-> q, price |-> p]

Order(u, items, total, addr) ==
    [user_id |-> u, items |-> items, total |-> total, status |-> PENDING,
     shipping_address |-> addr]

\* Mutant of OrderValidation: the total is not constrained.
OrderValidation_unconstrained(total) == NoExc

\* Order declares `total: float = Field(gt=0)`: constructing it with a total
\* that is not positive raises a ValidationError.
OrderValidation(total) ==
    IF total > 0 THEN NoExc ELSE Exc("ValidationError", "total gt 0", "")

\* A query parameter or header that was not sent.
Absent == [type |-> "absent"]

\* What a request carries as its bearer token, by the test of
\* get_current_user it stops at: no Authorization header at all, a token
\* that does not decode (forged or expired), a payload without "sub", a
\* "sub" no user document has, the id of a disabled user; or a token that
\* names an active user, who is then the request's `user`.
ActiveUserToken == [type |-> "active_user"]
Tokens ==
    {Absent, [type |-> "undecodable"], [type |-> "no_sub"], [type |-> "unknown_user"],
     [type |-> "disabled_user"], ActiveUserToken}

NoReq == [kind |-> "none", user |-> "alice", items |-> <<>>, order_id |-> 0,
          new_status |-> PENDING, product_id |-> Absent, quantity |-> 0,
          product_data |-> Absent, token |-> ActiveUserToken]

NoLoc == [user_cart |-> <<>>, idx |-> 0, order_items |-> <<>>, total |-> 0,
          order |-> NoDoc, oid |-> 0, product |-> NoDoc, cart |-> NoDoc, cid |-> 0]

NoSnap == [products |-> <<>>, carts |-> <<>>, orders |-> <<>>]

\* A ledger entry: the request kind and order an update_product call was made
\* for, the product, and the stock change it saved (0 when the call raised).
Entry(by, order_id, product_id, delta) ==
    [by |-> by, order_id |-> order_id, product_id |-> product_id, delta |-> delta]

\* ------------------------------------------------------- services/cart.py
\* Cart.find_one(Cart.user_id == user_id): the id of the first cart document
\* of the user, or 0 when there is none.
find_one(cs, user_id) ==
    LET mine == {i \in 1..Len(cs) : cs[i].user_id = user_id}
    IN  IF mine = {} THEN 0 ELSE CHOOSE i \in mine : \A j \in mine : i <= j

\* get_cart: the lines of the response; a missing cart document reads as an
\* empty cart.
get_cart(cs, user_id) ==
    IF find_one(cs, user_id) = 0 THEN <<>> ELSE cs[find_one(cs, user_id)].items

\* CartResponse(items=cart.items, ...): the lines handed over are CartItem
\* objects, the schema field is List[CartItemResponse], a different model
\* class with no from_attributes.  Whether a foreign model instance is
\* coerced field by field or refused with a ValidationError depends on the
\* validation rules of the installed pydantic (config.py's pydantic_settings
\* import points at version 2, which refuses it); the repository pins no
\* version, so both outcomes are kept.  An empty list always validates.
CartResponse_excs(items) ==
    IF items = <<>>
      THEN {NoExc}
      ELSE {NoExc, Exc("ValidationError", "items: model_type CartItemResponse", "")}

\* `sum(item.price * item.quantity for item in cart.items)`.
RECURSIVE total_price(_)
total_price(items) ==
    IF items = <<>> THEN 0
    ELSE Head(items).price * Head(items).quantity + total_price(Tail(items))

\* CartResponse(items=..., total_price=...), once it validates.
CartResponse(items, total) == [items |-> items, total_price |-> total]

\* Mutant of find_line: the line is never found.
find_line_never(items, product_id) == 0

\* The loops `for item in cart.items: if item.product_id == ...: ...; break`
\* of add_to_cart and update_cart_item: the position of the first line of the
\* product, or 0 when the loop runs into its `else`.
find_line(items, product_id) ==
    LET hits == {i \in 1..Len(items) : items[i].product_id = product_id}
    IN  IF hits = {} THEN 0 ELSE CHOOSE i \in hits : \A j \in hits : i <= j

\* Mutant of add_line: the quantity of an existing line is overwritten.
add_line_overwrite(items, product_id, quantity, price) ==
    IF find_line(items, product_id) = 0
      THEN Append(items, CartItem(product_id, quantity, price))
      ELSE [items EXCEPT ![find_line(items, product_id)].quantity = quantity]

\* add_to_cart's merge: add the quantity to the product's line, or append a
\* new line priced at the product's current price.
add_line(items, product_id, quantity, price) ==
    IF find_line(items, product_id) = 0
      THEN Append(items, CartItem(product_id, quantity, price))
      ELSE [items EXCEPT ![find_line(items, product_id)].quantity = @ + quantity]

\* Mutant of set_line: the requested quantity is added to the line's.
set_line_added(items, product_id, quantity) ==
    [items EXCEPT ![find_line(items, product_id)].quantity = @ + quantity]

\* update_cart_item's loop: set the quantity of the product's line.
set_line(items, product_id, quantity) ==
    [items EXCEPT ![find_line(items, product_id)].quantity = quantity]

\* remove_from_cart's filter `item.product_id != product_id`, where
\* product_id is the int the route declares: an ObjectId never equals an int,
\* so a line is dropped only if its id equals the argument as a value.
RECURSIVE remove_line(_, _)
remove_line(items, product_id) ==
    IF items = <<>> THEN <<>>
    ELSE IF [type |-> "ObjectId", val |-> Head(items).product_id] # product_id
      THEN <<Head(items)>> \o remove_line(Tail(items), product_id)
      ELSE remove_line(Tail(items), product_id)

\* What building the response of add_to_cart can raise after the save.  A
\* line that was appended is a plain dict: if the save leaves the local list
\* as it is, `item.price` of the dict raises AttributeError; if the save
\* reloads the document the lines are CartItem objects and the response is
\* built as in get_cart.
add_response_excs(items, appended) ==
    CartResponse_excs(items) \cup
    (IF appended
       THEN {Exc("AttributeError", "'dict' object has no attribute 'price'", "")}
       ELSE {})

\* cart.save(): insert a document that has no id yet, replace it otherwise.
save_cart(cs, cid, cart) ==
    IF cid = 0 THEN Append(cs, cart) ELSE [cs EXCEPT ![cid] = cart]

\* clear_cart: raises when the user has no cart document, else empties it.
clear_cart_exc(cs, user_id) ==
    IF find_one(cs, user_id) = 0 THEN Exc("ValueError", "Cart not found", "") ELSE NoExc

clear_cart(cs, user_id) ==
    IF find_one(cs, user_id) = 0 THEN cs
    ELSE [cs EXCEPT ![find_one(cs, user_id)].items = <<>>]

\* ---------------------------------------------------- services/product.py
\* get_product: Product.get followed by the `if not product` test.
get_product_exc(product) ==
    IF product = NoDoc THEN Exc("Exception", "Product not found", "") ELSE NoExc

\* The argument the order service passes as `product_data`: a bare int.
IntArg(n) == [type |-> "int", val |-> n]

\* A ProductUpdate schema object; `fields` are the fields that are not None.
ProductUpdate(fields, n, p, s) ==
    [type |-> "ProductUpdate", fields |-> fields, name |-> n, price |-> p, stock |-> s]

\* Mutant of update_product: an int argument is applied to the stock as a
\* delta, with no test of the result.
update_product_unchecked(product, product_data) ==
    IF product = NoDoc
      THEN [exc |-> Exc("Exception", "Product not found", ""), product |-> product]
    ELSE [exc |-> NoExc,
          product |-> [product EXCEPT !.stock = product.stock + product_data.val]]

\* update_product(product_id, product_data), after its Product.get: the
\* exception it raises, if any, and the local document it would then save.
\* Reading `.name` of an int raises AttributeError before anything is set.
update_product(product, product_data) ==
    IF product = NoDoc
      THEN [exc |-> Exc("Exception", "Product not found", ""), product |-> product]
    ELSE IF product_data.type = "int"
      THEN [exc |-> Exc("AttributeError", "'int' object has no attribute 'name'", ""),
            product |-> product]
    ELSE [exc |-> NoExc,
          product |-> [name  |-> IF "name" \in product_data.fields
                                   THEN product_data.name ELSE product.name,
                       price |-> IF "price" \in product_data.fields
                                   THEN product_data.price ELSE product.price,
                       stock |-> IF "stock" \in product_data.fields
                                   THEN product_data.stock ELSE product.stock]]

\* The update_product endpoint of the product router, between its Product.get
\* and its save: every field the request set is assigned to the document.
set_fields(product, product_data) ==
    [name  |-> IF "name" \in product_data.fields THEN product_data.name ELSE product.name,
     price |-> IF "price" \in product_data.fields THEN product_data.price ELSE product.price,
     stock |-> IF "stock" \in product_data.fields THEN product_data.stock ELSE product.stock]

\* update_product_stock(product_id, quantity_delta), after its Product.get.
\* No caller in the repository uses it.
update_product_stock(product, quantity_delta) ==
    IF product = NoDoc
      THEN [exc |-> Exc("Exception", "Product not found", ""), product |-> product]
    ELSE IF product.stock + quantity_delta < 0
      THEN [exc |-> Exc("ValueError", "Insufficient stock", ""), product |-> product]
    ELSE [exc |-> NoExc,
          product |-> [product EXCEPT !.stock = product.stock + quantity_delta]]

\* ------------------------------------------------------ services/order.py
\* Mutant of stock_insufficient: only a product that is out of stock is refused.
stock_insufficient_out_of_stock(product, item) == product.stock < 1

\* Mutant of cart_is_empty: the test is missing.
cart_is_empty_never(user_cart) == FALSE

\* create_order's test of the cart it loaded: `if not user_cart.items`.
cart_is_empty(user_cart) == user_cart = <<>>

\* create_order's loop over the requested lines that looks each product up in
\* the cart: the position of the first line whose product is not in the
\* cart, or 0.
first_not_in_cart(items, cart_product_ids) ==
    LET bad == {i \in 1..Len(items) : items[i].product_id \notin cart_product_ids}
    IN  IF bad = {} THEN 0 ELSE CHOOSE i \in bad : \A j \in bad : i <= j

\* create_order's stock test on a requested line: `product.stock < item.quantity`.
stock_insufficient(product, item) == product.stock < item.quantity

\* Mutant of order_item: the line keeps the price the product was first
\* listed at.
order_item_listed_price(item, product) ==
    OrderItem(item.product_id, product.name, item.quantity,
              IF item.product_id = "A" THEN 2 ELSE 3)

\* create_order's OrderItem(...) for a requested line: name and price are
\* those of the product document just read.
order_item(item, product) ==
    OrderItem(item.product_id, product.name, item.quantity, product.price)

\* Mutant of with_status: the order is rebuilt around the new status and its
\* total is left at zero.
with_status_rebuilt(order, new_status) ==
    [order EXCEPT !.status = new_status, !.total = 0]

\* `order.status = new_status` on the loaded order document.
with_status(order, new_status) == [order EXCEPT !.status = new_status]

\* Mutant of not_pending: an order can be cancelled until it is delivered.
not_pending_terminal_only(order) == order.status \in {CANCELLED, DELIVERED}

\* Mutant of not_pending: only an order that is already cancelled is refused.
not_pending_only_cancelled(order) == order.status = CANCELLED

\* cancel_order's status test: `order.status != OrderStatus.PENDING`.
not_pending(order) == order.status # PENDING

\* build_order_response: OrderItemResponse declares a required field
\* `description` that the call never passes, so building the response of an
\* order with at least one item raises a ValidationError.
build_order_response_exc(order) ==
    IF Len(order.items) > 0
      THEN Exc("ValidationError", "items.description field required", "")
      ELSE NoExc

\* -------------------------------------------------- auth: get_current_user
\* Mutant of get_current_user_exc: every request is let through.
get_current_user_exc_missing(token) == NoExc

\* The oauth2_scheme dependency (a request without a bearer token is refused
\* by OAuth2PasswordBearer) and the tests of get_current_user.
get_current_user_exc(token) ==
    IF token = Absent
      THEN Exc("HTTPException", "Not authenticated", "")
    ELSE IF token.type = "undecodable"
      THEN Exc("UnauthorizedException", "Invalid or expired token", "")
    ELSE IF token.type = "no_sub"
      THEN Exc("UnauthorizedException", "Invalid token payload", "")
    ELSE IF token.type = "unknown_user"
      THEN Exc("NotFoundException", "User not found", "")
    ELSE IF token.type = "disabled_user"
      THEN Exc("UnauthorizedException", "User account is disabled", "")
    ELSE NoExc

\* HTTP status of what the authentication dependencies raise:
\* OAuth2PasswordBearer answers 401 itself, the others are exceptions of
\* app.utils.exceptions.
HttpOfAuthExc(e) ==
    IF e.type = "UnauthorizedException" THEN UnauthorizedStatus
    ELSE IF e.type = "NotFoundException" THEN NotFoundStatus
    ELSE 401

\* --------------------------------------------- auth: get_current_superuser
\* Mutant of get_current_superuser_exc: the admin test is missing.
get_current_superuser_exc_missing(current_user) == NoExc

\* get_current_superuser: `if not current_user.is_superuser: raise ...`.
get_current_superuser_exc(current_user) ==
    IF ~ is_superuser(current_user)
      THEN Exc("UnauthorizedException", "Admin access required", "")
      ELSE NoExc

\* ---------------------------------------------------------- request frame
Idle(h) == pc[h] \in {"idle", "done"}

\* A new request is picked up by the first free handler of the pool; at most
\* `limit` requests are served in one behaviour.
BeginWithin(h, r, first, limit) ==
    /\ Idle(h)
    /\ \A g \in Handlers : g < h => ~ Idle(g)
    /\ nreq < limit
    /\ nreq' = nreq + 1
    /\ req' = [req EXCEPT ![h] = r]
    /\ loc' = [loc EXCEPT ![h] = NoLoc]
    /\ pc' = [pc EXCEPT ![h] = first]
    /\ resp' = [resp EXCEPT ![h] = NoResponse]
    /\ snap' = [snap EXCEPT ![h] = [products |-> products, carts |-> carts,
                                    orders |-> orders]]
    /\ created' = [created EXCEPT ![h] = 0]
    /\ applied' = [applied EXCEPT ![h] = <<>>]
    /\ UNCHANGED <<products, carts, orders, stock0, ledger>>

Begin(h, r, first) == BeginWithin(h, r, first, MaxRequests)

\* The request ends with a response; the handler's locals are gone.
Reply(h, r) ==
    /\ pc' = [pc EXCEPT ![h] = "done"]
    /\ resp' = [resp EXCEPT ![h] = r]
    /\ loc' = [loc EXCEPT ![h] = NoLoc]

\* The service raised e: the router turns it into the response.
Raise(h, e) == Reply(h, Response(HttpOfExc(e), e, pc[h]))

Return(h, code) == Reply(h, Response(code, NoExc, pc[h]))

\* The cart router has no exception handler: whatever the service raises is
\* an unhandled server error.
RaiseUnhandled(h, e) == Reply(h, Response(500, e, pc[h]))

\* The cart router returns the CartResponse the service built.
ReturnCart(h, items) ==
    Reply(h, [Response(200, NoExc, pc[h]) EXCEPT
                 !.body = CartResponse(items, total_price(items))])

\* Request validation refused the request before the endpoint ran.
Unprocessable(h) ==
    Reply(h, Response(422, Exc("RequestValidationError", "", ""), pc[h]))

\* ------------------------------------------------- POST /orders (checkout)
\* The lines a checkout request may carry: none, one line, or a line for A
\* followed by a line for B.
RequestLines ==
    LET line == {OrderItemCreate(p, q) : p \in ProductIds, q \in 1..MaxQty}
    IN  {<<>>} \cup {<<a>> : a \in line}
        \cup {ab \in line \X line : ab[1].product_id = "A" /\ ab[2].product_id = "B"}

StartCheckout(h) ==
    \E u \in Customers, items \in RequestLines :
        /\ Len(orders) < MaxOrders
        /\ Begin(h, [NoReq EXCEPT !.kind = "checkout", !.user = u, !.items = items],
              "co_get_cart")

\* Requests that name one product in two lines: OrderCreate.items is a plain
\* list, nothing makes its product ids distinct.
RepeatedLines ==
    {<<OrderItemCreate(p, q1), OrderItemCreate(p, q2)>> :
        p \in ProductIds, q1 \in 1..MaxQty, q2 \in 1..MaxQty}

StartCheckoutRepeated(h) ==
    \E u \in Customers, items \in RepeatedLines :
        /\ Len(orders) < MaxOrders
        /\ Begin(h, [NoReq EXCEPT !.kind = "checkout", !.user = u, !.items = items],
              "co_get_cart")

\* The request a client builds from the cart it sees: one requested line per
\* cart line, with the cart line's quantity.
LinesOfCart(items) ==
    [i \in 1..Len(items) |-> OrderItemCreate(items[i].product_id, items[i].quantity)]

\* A checkout of the lines of the caller's own cart.
StartCheckoutOfCartWithin(h, limit) ==
    \E u \in Customers :
        /\ Len(orders) < MaxOrders
        /\ BeginWithin(h, [NoReq EXCEPT !.kind = "checkout", !.user = u,
                                        !.items = LinesOfCart(get_cart(carts, u))],
                       "co_get_cart", limit)

StartCheckoutOfCart(h) == StartCheckoutOfCartWithin(h, MaxRequests)

\* create_order up to its first get_product: load the cart (get_cart, which
\* builds a CartResponse), reject an empty cart, reject a requested product
\* that is not in the cart.
CheckoutGetCart(h) ==
    /\ pc[h] = "co_get_cart"
    /\ LET user_cart == get_cart(carts, req[h].user)
           cart_product_ids == {user_cart[i].product_id : i \in 1..Len(user_cart)}
           bad == first_not_in_cart(req[h].items, cart_product_ids)
       IN  \E e \in CartResponse_excs(user_cart) :
           IF e # NoExc
             THEN Raise(h, e)
           ELSE IF cart_is_empty(user_cart)
             THEN Raise(h, Exc("ValueError", "Cart is empty", ""))
           ELSE IF bad # 0
             THEN Raise(h, Exc("ValueError", "Item not in cart",
                                  req[h].items[bad].product_id))
           ELSE IF req[h].items = <<>>
             \* both loops are skipped and Order(total=0.0) is constructed
             THEN IF OrderValidation(0) # NoExc
                    THEN Raise(h, OrderValidation(0))
                    ELSE /\ loc' = [loc EXCEPT ![h].user_cart = user_cart,
                                               ![h].order = Order(req[h].user, <<>>, 0, "addr")]
                         /\ pc' = [pc EXCEPT ![h] = "co_save_order"]
                         /\ UNCHANGED resp
           ELSE /\ loc' = [loc EXCEPT ![h].user_cart = user_cart, ![h].idx = 1]
                /\ pc' = [pc EXCEPT ![h] = "co_get_product"]
                /\ UNCHANGED resp
    /\ UNCHANGED <<products, carts, orders, req, snap, stock0, created, applied, ledger, nreq>>

\* One turn of the first loop of create_order: resolve the product of the
\* current line, check its stock, snapshot name and price; after the last
\* line the Order object is constructed.
CheckoutGetProduct(h) ==
    /\ pc[h] = "co_get_product"
    /\ LET item == req[h].items[loc[h].idx]
           product == products[item.product_id]
       IN  IF get_product_exc(product) # NoExc
             THEN Raise(h, get_product_exc(product))
           ELSE IF stock_insufficient(product, item)
             THEN Raise(h, Exc("ValueError", "Insufficient stock for", product.name))
           ELSE
             LET order_items == Append(loc[h].order_items, order_item(item, product))
                 total == loc[h].total + product.price * item.quantity
             IN  IF loc[h].idx < Len(req[h].items)
                   THEN /\ loc' = [loc EXCEPT ![h].order_items = order_items,
                                              ![h].total = total,
                                              ![h].idx = loc[h].idx + 1]
                        /\ UNCHANGED <<pc, resp>>
                 ELSE IF OrderValidation(total) # NoExc
                   THEN Raise(h, OrderValidation(total))
                 ELSE /\ loc' = [loc EXCEPT ![h].order_items = order_items,
                                            ![h].total = total,
                                            ![h].order = Order(req[h].user, order_items,
                                                               total, "addr")]
                      /\ pc' = [pc EXCEPT ![h] = "co_save_order"]
                      /\ UNCHANGED resp
    /\ UNCHANGED <<products, carts, orders, req, snap, stock0, created, applied, ledger, nreq>>

\* `await order.save()`: the order is inserted, with status pending.
CheckoutSaveOrder(h) ==
    /\ pc[h] = "co_save_order"
    /\ orders' = Append(orders, loc[h].order)
    /\ loc' = [loc EXCEPT ![h].oid = Len(orders) + 1, ![h].idx = 1]
    /\ pc' = [pc EXCEPT ![h] = "co_update_stock"]
    /\ created' = [created EXCEPT ![h] = Len(orders) + 1]
    /\ UNCHANGED <<products, carts, req, resp, snap, stock0, applied, ledger, nreq>>

\* The second loop of create_order and what follows it.  Each turn calls
\* update_product(item.product_id, -item.quantity): a Product.get, the body
\* of update_product, then product.save() as a separate store access.  When
\* the loop is over the cart is cleared and the response is built.
CheckoutUpdateStock(h) ==
    /\ pc[h] = "co_update_stock"
    /\ IF loc[h].idx > Len(loc[h].order_items)
         THEN /\ IF clear_cart_exc(carts, req[h].user) # NoExc
                   THEN /\ Raise(h, clear_cart_exc(carts, req[h].user))
                        /\ UNCHANGED carts
                   ELSE /\ carts' = clear_cart(carts, req[h].user)
                        /\ IF build_order_response_exc(loc[h].order) # NoExc
                             THEN Raise(h, build_order_response_exc(loc[h].order))
                             ELSE Return(h, 201)
              /\ UNCHANGED <<products, applied, ledger>>
       ELSE IF loc[h].product = NoDoc
         THEN LET item == loc[h].order_items[loc[h].idx]
                  out == update_product(products[item.product_id],
                                        IntArg(0 - item.quantity))
              IN  /\ IF out.exc # NoExc
                       THEN /\ Raise(h, out.exc)
                            /\ ledger' = Append(ledger, Entry(req[h].kind, loc[h].oid,
                                                               item.product_id, 0))
                       ELSE /\ loc' = [loc EXCEPT ![h].product = out.product]
                            /\ UNCHANGED <<pc, resp, ledger>>
                  /\ UNCHANGED <<products, carts, applied>>
       ELSE /\ products' = [products EXCEPT
                               ![loc[h].order_items[loc[h].idx].product_id] = loc[h].product]
            /\ applied' = [applied EXCEPT ![h] =
                              Append(@, [product_id |-> loc[h].order_items[loc[h].idx].product_id,
                                         delta |-> 0 - loc[h].order_items[loc[h].idx].quantity])]
            /\ ledger' = Append(ledger, Entry(req[h].kind, loc[h].oid,
                                               loc[h].order_items[loc[h].idx].product_id,
                                               0 - loc[h].order_items[loc[h].idx].quantity))
            /\ loc' = [loc EXCEPT ![h].product = NoDoc, ![h].idx = loc[h].idx + 1]
            /\ UNCHANGED <<carts, pc, resp>>
    /\ UNCHANGED <<orders, req, snap, stock0, created, nreq>>

\* ----------------------------------------------------- Order.get(order_id)
\* Order ids are positions in `orders`; id 0 stands for an id no order has.
OrderGet(os, order_id) ==
    IF order_id \in 1..Len(os) THEN os[order_id] ELSE NoDoc

\* --------------------------------------------- DELETE /orders/{id} (cancel)
\* cancel_order_endpoint depends on get_current_user only: any authenticated
\* caller may name any order id.
StartCancelWithin(h, callers, limit) ==
    \E u \in callers, oid \in 0..Len(orders) :
        BeginWithin(h, [NoReq EXCEPT !.kind = "cancel", !.user = u, !.order_id = oid],
                    "ca_get", limit)

StartCancelBy(h, callers) == StartCancelWithin(h, callers, MaxRequests)

StartCancel(h) == StartCancelBy(h, Customers)

StartCancelAny(h) == StartCancelBy(h, Principals)

\* Mutant of CancelGet: the status is set to cancelled and saved as soon as
\* the order has passed the tests, before the restore loop.
CancelGet_status_first(h) ==
    /\ pc[h] = "ca_get"
    /\ LET order == OrderGet(orders, req[h].order_id)
       IN  IF order = NoDoc
             THEN /\ Raise(h, Exc("ValueError", "Order not found", ""))
                  /\ UNCHANGED orders
           ELSE IF not_pending(order)
             THEN /\ Raise(h, Exc("ValueError", "Cannot cancel order with status",
                                     order.status))
                  /\ UNCHANGED orders
           ELSE /\ orders' = [orders EXCEPT ![req[h].order_id] =
                                                with_status(order, CANCELLED)]
                /\ loc' = [loc EXCEPT ![h].order = order, ![h].idx = 1]
                /\ pc' = [pc EXCEPT ![h] = "ca_restore"]
                /\ UNCHANGED resp
    /\ UNCHANGED <<products, carts, req, snap, stock0, created, applied, ledger, nreq>>

\* cancel_order up to its first update_product: load the order, reject an
\* unknown id, reject an order that is not pending.
CancelGet(h) ==
    /\ pc[h] = "ca_get"
    /\ LET order == OrderGet(orders, req[h].order_id)
       IN  IF order = NoDoc
             THEN Raise(h, Exc("ValueError", "Order not found", ""))
           ELSE IF not_pending(order)
             THEN Raise(h, Exc("ValueError", "Cannot cancel order with status",
                                  order.status))
           ELSE /\ loc' = [loc EXCEPT ![h].order = order, ![h].idx = 1]
                /\ pc' = [pc EXCEPT ![h] = "ca_restore"]
                /\ UNCHANGED resp
    /\ UNCHANGED <<products, carts, orders, req, snap, stock0, created, applied, ledger, nreq>>

\* The loop of cancel_order and what follows it.  Each turn calls
\* update_product(item.product_id, item.quantity): a Product.get, the body of
\* update_product, then product.save().  When the loop is over the loaded
\* order is saved with status cancelled and the response is built.
CancelRestore(h) ==
    /\ pc[h] = "ca_restore"
    /\ IF loc[h].idx > Len(loc[h].order.items)
         THEN LET order == with_status(loc[h].order, CANCELLED)
              IN  /\ orders' = [orders EXCEPT ![req[h].order_id] = order]
                  /\ IF build_order_response_exc(order) # NoExc
                       THEN Raise(h, build_order_response_exc(order))
                       ELSE Return(h, 200)
                  /\ UNCHANGED <<products, applied, ledger>>
       ELSE IF loc[h].product = NoDoc
         THEN LET item == loc[h].order.items[loc[h].idx]
                  out == update_product(products[item.product_id],
                                        IntArg(item.quantity))
              IN  /\ IF out.exc # NoExc
                       THEN /\ Raise(h, out.exc)
                            /\ ledger' = Append(ledger, Entry(req[h].kind, req[h].order_id,
                                                               item.product_id, 0))
                       ELSE /\ loc' = [loc EXCEPT ![h].product = out.product]
                            /\ UNCHANGED <<pc, resp, ledger>>
                  /\ UNCHANGED <<products, orders, applied>>
       ELSE /\ products' = [products EXCEPT
                               ![loc[h].order.items[loc[h].idx].product_id] = loc[h].product]
            /\ applied' = [applied EXCEPT ![h] =
                              Append(@, [product_id |-> loc[h].order.items[loc[h].idx].product_id,
                                         delta |-> loc[h].order.items[loc[h].idx].quantity])]
            /\ ledger' = Append(ledger, Entry(req[h].kind, req[h].order_id,
                                               loc[h].order.items[loc[h].idx].product_id,
                                               loc[h].order.items[loc[h].idx].quantity))
            /\ loc' = [loc EXCEPT ![h].product = NoDoc, ![h].idx = loc[h].idx + 1]
            /\ UNCHANGED <<orders, pc, resp>>
    /\ UNCHANGED <<carts, req, snap, stock0, created, nreq>>

\* ------------------------------- PATCH /orders/{id}/status (admin setStatus)
StartSetStatus(h) ==
    \E u \in Users, oid \in 0..Len(orders), st \in OrderStatus :
        Begin(h, [NoReq EXCEPT !.kind = "setStatus", !.user = u, !.order_id = oid,
                               !.new_status = st],
              "ss_get")

\* The get_current_superuser dependency, then update_order_status up to its
\* save: load the order, reject an unknown id, assign the new status to the
\* loaded copy.  No test is made on the order's current status.
SetStatusGet(h) ==
    /\ pc[h] = "ss_get"
    /\ LET order == OrderGet(orders, req[h].order_id)
       IN  IF get_current_superuser_exc(req[h].user) # NoExc
             THEN Reply(h, Response(UnauthorizedStatus,
                                    get_current_superuser_exc(req[h].user), pc[h]))
           ELSE IF order = NoDoc
             THEN Raise(h, Exc("ValueError", "Order not found", ""))
           ELSE /\ loc' = [loc EXCEPT ![h].order =
                                         with_status(order, req[h].new_status)]
                /\ pc' = [pc EXCEPT ![h] = "ss_save"]
                /\ UNCHANGED resp
    /\ UNCHANGED <<products, carts, orders, req, snap, stock0, created, applied, ledger, nreq>>

\* `await order.save()` writes the loaded copy back, then the response is built.
SetStatusSave(h) ==
    /\ pc[h] = "ss_save"
    /\ orders' = [orders EXCEPT ![req[h].order_id] = loc[h].order]
    /\ IF build_order_response_exc(loc[h].order) # NoExc
         THEN Raise(h, build_order_response_exc(loc[h].order))
         ELSE Return(h, 200)
    /\ UNCHANGED <<products, carts, req, snap, stock0, created, applied, ledger, nreq>>

\* ------------------------------------------ GET /orders/{id} (get_order)
StartGetOrder(h) ==
    \E u \in Principals, oid \in 0..Len(orders) :
        Begin(h, [NoReq EXCEPT !.kind = "getOrder", !.user = u, !.order_id = oid],
              "go_get")

\* get_order_endpoint's `except Exception`: 404 when the text of the
\* exception contains "not found", 500 otherwise.
HttpOfGetOrderExc(e) == IF e.msg = "order not found" THEN 404 ELSE 500

\* get_order_endpoint's test on the response it got from the service.
not_your_order(order, current_user) ==
    order.user_id # current_user /\ ~ is_superuser(current_user)

\* get_order (Order.get, then build_order_response) and the endpoint around
\* it: the owner test comes after the response has been built.
GetOrderGet(h) ==
    /\ pc[h] = "go_get"
    /\ LET order == OrderGet(orders, req[h].order_id)
       IN  IF order = NoDoc
             THEN Reply(h, Response(HttpOfGetOrderExc(Exc("Exception", "order not found", "")),
                                    Exc("Exception", "order not found", ""), pc[h]))
           ELSE IF build_order_response_exc(order) # NoExc
             THEN Reply(h, Response(HttpOfGetOrderExc(build_order_response_exc(order)),
                                    build_order_response_exc(order), pc[h]))
           ELSE IF not_your_order(order, req[h].user)
             THEN Reply(h, Response(403, Exc("HTTPException", "Not your order", ""), pc[h]))
           ELSE Return(h, 200)
    /\ UNCHANGED <<products, carts, orders, req, snap, stock0, created, applied, ledger, nreq>>

\* ------------------------------------------- GET /orders/ (list_user_orders)
StartListOrders(h) ==
    \E u \in Principals :
        Begin(h, [NoReq EXCEPT !.kind = "listOrders", !.user = u], "lo_find")

\* list_user_orders builds a response for every order of the caller; the
\* endpoint has no exception handler.
ListOrdersFind(h) ==
    /\ pc[h] = "lo_find"
    /\ LET mine == {o \in 1..Len(orders) : orders[o].user_id = req[h].user}
           bad == {o \in mine : build_order_response_exc(orders[o]) # NoExc}
       IN  IF bad # {}
             THEN RaiseUnhandled(h, build_order_response_exc(
                                       orders[CHOOSE o \in bad : \A q \in bad : o <= q]))
             ELSE Return(h, 200)
    /\ UNCHANGED <<products, carts, orders, req, snap, stock0, created, applied, ledger, nreq>>

\* ------------------------------------------------- GET /cart/ (read_cart)
StartReadCart(h) ==
    \E u \in Principals :
        Begin(h, [NoReq EXCEPT !.kind = "readCart", !.user = u], "rc_find")

\* get_cart: Cart.find_one, then the CartResponse.
ReadCartFind(h) ==
    /\ pc[h] = "rc_find"
    /\ \E e \in CartResponse_excs(get_cart(carts, req[h].user)) :
          IF e # NoExc THEN RaiseUnhandled(h, e)
          ELSE ReturnCart(h, get_cart(carts, req[h].user))
    /\ UNCHANGED <<products, carts, orders, req, snap, stock0, created, applied, ledger, nreq>>

\* ------------------------------------------- POST /cart/items (add_to_cart)
StartAdd(h) ==
    \E u \in Customers, p \in ProductIds, q \in 1..MaxQty :
        Begin(h, [NoReq EXCEPT !.kind = "add", !.user = u, !.product_id = p,
                               !.quantity = q],
              "add_find")

\* `cart = await Cart.find_one(...)`.
AddFind(h) ==
    /\ pc[h] = "add_find"
    /\ LET cid == find_one(carts, req[h].user)
       IN  loc' = [loc EXCEPT ![h].cid = cid,
                              ![h].cart = IF cid = 0 THEN NoDoc ELSE carts[cid]]
    /\ pc' = [pc EXCEPT ![h] = "add_get_product"]
    /\ UNCHANGED <<products, carts, orders, req, resp, snap, stock0, created, applied, ledger, nreq>>

\* `product = await get_product(...)` and the code up to `cart.save()`: a new
\* Cart object when none was found, the stock test on the added quantity, the
\* merge into the local list.
AddGetProduct(h) ==
    /\ pc[h] = "add_get_product"
    /\ LET product == products[req[h].product_id]
           cart == IF loc[h].cart = NoDoc THEN Cart(req[h].user, <<>>) ELSE loc[h].cart
       IN  IF get_product_exc(product) # NoExc
             THEN RaiseUnhandled(h, get_product_exc(product))
           ELSE IF product.stock < req[h].quantity
             THEN RaiseUnhandled(h, Exc("ValueError", "Insufficient stock for the product", ""))
           ELSE /\ loc' = [loc EXCEPT
                              ![h].cart = [cart EXCEPT !.items =
                                              add_line(cart.items, req[h].product_id,
                                                       req[h].quantity, product.price)],
                              ![h].idx = find_line(cart.items, req[h].product_id)]
                /\ pc' = [pc EXCEPT ![h] = "add_save"]
                /\ UNCHANGED resp
    /\ UNCHANGED <<products, carts, orders, req, snap, stock0, created, applied, ledger, nreq>>

\* `await cart.save()`, then the total and the CartResponse.
AddSave(h) ==
    /\ pc[h] = "add_save"
    /\ carts' = save_cart(carts, loc[h].cid, loc[h].cart)
    /\ \E e \in add_response_excs(loc[h].cart.items, loc[h].idx = 0) :
          IF e # NoExc THEN RaiseUnhandled(h, e) ELSE ReturnCart(h, loc[h].cart.items)
    /\ UNCHANGED <<products, orders, req, snap, stock0, created, applied, ledger, nreq>>

\* -------------------------------------- PUT /cart/cart/items (update_cart_item)
StartUpdate(h) ==
    \E u \in Customers, p \in ProductIds, q \in 1..MaxQty :
        Begin(h, [NoReq EXCEPT !.kind = "update", !.user = u, !.product_id = p,
                               !.quantity = q],
              "up_find")

\* update_cart_item up to `cart.save()`.
UpdateFind(h) ==
    /\ pc[h] = "up_find"
    /\ LET cid == find_one(carts, req[h].user)
       IN  IF cid = 0
             THEN RaiseUnhandled(h, Exc("ValueError", "Cart not found", ""))
           ELSE IF find_line(carts[cid].items, req[h].product_id) = 0
             THEN RaiseUnhandled(h, Exc("ValueError", "Item not found in cart", ""))
           ELSE /\ loc' = [loc EXCEPT
                              ![h].cid = cid,
                              ![h].cart = [carts[cid] EXCEPT !.items =
                                              set_line(carts[cid].items, req[h].product_id,
                                                       req[h].quantity)]]
                /\ pc' = [pc EXCEPT ![h] = "up_save"]
                /\ UNCHANGED resp
    /\ UNCHANGED <<products, carts, orders, req, snap, stock0, created, applied, ledger, nreq>>

UpdateSave(h) ==
    /\ pc[h] = "up_save"
    /\ carts' = save_cart(carts, loc[h].cid, loc[h].cart)
    /\ \E e \in CartResponse_excs(loc[h].cart.items) :
          IF e # NoExc THEN RaiseUnhandled(h, e) ELSE ReturnCart(h, loc[h].cart.items)
    /\ UNCHANGED <<products, orders, req, snap, stock0, created, applied, ledger, nreq>>

\* ------------------------------------------------------------ DELETE /cart/
\* Two endpoints are registered for DELETE "/": remove_item_from_cart first,
\* clear_user_cart second.  The first registered route serves every such
\* request, so clear_user_cart is never called.  remove_item_from_cart
\* declares `product_id: int`: a request without the parameter (a "clear")
\* or with a product's ObjectId is refused with 422.
RemoveArgs ==
    {Absent} \cup {[type |-> "ObjectId", val |-> p] : p \in ProductIds} \cup {IntArg(1)}

StartRemove(h) ==
    \E u \in Customers, a \in RemoveArgs :
        Begin(h, [NoReq EXCEPT !.kind = "remove", !.user = u, !.product_id = a],
              "rm_find")

\* Request validation, then remove_from_cart up to `cart.save()`.
RemoveFind(h) ==
    /\ pc[h] = "rm_find"
    /\ LET cid == find_one(carts, req[h].user)
       IN  IF req[h].product_id.type # "int"
             THEN Unprocessable(h)
           ELSE IF cid = 0
             THEN RaiseUnhandled(h, Exc("ValueError", "Cart not found", ""))
           ELSE /\ loc' = [loc EXCEPT
                              ![h].cid = cid,
                              ![h].cart = [carts[cid] EXCEPT !.items =
                                              remove_line(carts[cid].items, req[h].product_id)]]
                /\ pc' = [pc EXCEPT ![h] = "rm_save"]
                /\ UNCHANGED resp
    /\ UNCHANGED <<products, carts, orders, req, snap, stock0, created, applied, ledger, nreq>>

RemoveSave(h) ==
    /\ pc[h] = "rm_save"
    /\ carts' = save_cart(carts, loc[h].cid, loc[h].cart)
    /\ \E e \in CartResponse_excs(loc[h].cart.items) :
          IF e # NoExc THEN RaiseUnhandled(h, e) ELSE ReturnCart(h, loc[h].cart.items)
    /\ UNCHANGED <<products, orders, req, snap, stock0, created, applied, ledger, nreq>>

\* ------------------------------ requests with any token: Depends(get_current_user)
\* The first step of the endpoint behind each cart and order route that
\* depends on get_current_user.
FirstStep ==
    [readCart |-> "rc_find", add |-> "add_find", remove |-> "rm_find",
     checkout |-> "co_get_cart", listOrders |-> "lo_find", cancel |-> "ca_get"]

\* A request to view the cart, list the orders, add one unit of a product,
\* remove (or clear), check out the cart or cancel an order, carrying any
\* token.
StartWithToken(h) ==
    \E t \in Tokens, u \in Customers :
        LET r == [NoReq EXCEPT !.token = t, !.user = u]
        IN  \/ \E k \in {"readCart", "listOrders"} :
                  Begin(h, [r EXCEPT !.kind = k], "auth")
            \/ \E p \in ProductIds :
                  Begin(h, [r EXCEPT !.kind = "add", !.product_id = p, !.quantity = 1],
                        "auth")
            \/ \E a \in RemoveArgs :
                  Begin(h, [r EXCEPT !.kind = "remove", !.product_id = a], "auth")
            \/ /\ Len(orders) < MaxOrders
               /\ Begin(h, [r EXCEPT !.kind = "checkout",
                                     !.items = LinesOfCart(get_cart(carts, u))],
                        "auth")
            \/ \E oid \in 0..Len(orders) :
                  Begin(h, [r EXCEPT !.kind = "cancel", !.order_id = oid], "auth")

\* The dependencies are resolved before the endpoint is called: a request
\* they refuse never reaches it.
Authenticate(h) ==
    /\ pc[h] = "auth"
    /\ LET e == get_current_user_exc(req[h].token)
       IN  IF e # NoExc
             THEN Reply(h, Response(HttpOfAuthExc(e), e, pc[h]))
             ELSE /\ pc' = [pc EXCEPT ![h] = FirstStep[req[h].kind]]
                  /\ UNCHANGED <<loc, resp>>
    /\ UNCHANGED <<products, carts, orders, req, snap, stock0, created, applied, ledger, nreq>>

\* ------------------------------------- PUT /products/{id} (update_product)
\* The bodies a catalogue update may carry: a new price, a new name, or a new
\* stock level.
ProductUpdates ==
    {ProductUpdate({"price"}, "", 5, 0), ProductUpdate({"name"}, "renamed", 0, 0)}
    \cup {ProductUpdate({"stock"}, "", 0, n) : n \in 0..MaxStock}

\* The endpoint declares no dependency on the caller.
StartPutProduct(h) ==
    \E p \in ProductIds, d \in ProductUpdates :
        Begin(h, [NoReq EXCEPT !.kind = "putProduct", !.product_id = p,
                               !.product_data = d],
              "pp_get")

PutProductGet(h) ==
    /\ pc[h] = "pp_get"
    /\ LET product == products[req[h].product_id]
       IN  IF product = NoDoc
             THEN Reply(h, Response(NotFoundStatus,
                                    Exc("NotFoundException", "Product not found", ""), pc[h]))
           ELSE /\ loc' = [loc EXCEPT ![h].product = set_fields(product, req[h].product_data)]
                /\ pc' = [pc EXCEPT ![h] = "pp_save"]
                /\ UNCHANGED resp
    /\ UNCHANGED <<products, carts, orders, req, snap, stock0, created, applied, ledger, nreq>>

PutProductSave(h) ==
    /\ pc[h] = "pp_save"
    /\ products' = [products EXCEPT ![req[h].product_id] = loc[h].product]
    /\ Return(h, 200)
    /\ UNCHANGED <<carts, orders, req, snap, stock0, created, applied, ledger, nreq>>

\* ---------------------------------- DELETE /products/{id} (delete_product)
StartDeleteProductWithin(h, limit) ==
    \E p \in ProductIds :
        BeginWithin(h, [NoReq EXCEPT !.kind = "deleteProduct", !.product_id = p],
                    "dp_get", limit)

StartDeleteProduct(h) == StartDeleteProductWithin(h, MaxRequests)

DeleteProductGet(h) ==
    /\ pc[h] = "dp_get"
    /\ LET product == products[req[h].product_id]
       IN  IF product = NoDoc
             THEN Reply(h, Response(NotFoundStatus,
                                    Exc("NotFoundException", "Product not found", ""), pc[h]))
           ELSE /\ loc' = [loc EXCEPT ![h].product = product]
                /\ pc' = [pc EXCEPT ![h] = "dp_delete"]
                /\ UNCHANGED resp
    /\ UNCHANGED <<products, carts, orders, req, snap, stock0, created, applied, ledger, nreq>>

DeleteProductDelete(h) ==
    /\ pc[h] = "dp_delete"
    /\ products' = [products EXCEPT ![req[h].product_id] = NoDoc]
    /\ Return(h, 200)
    /\ UNCHANGED <<carts, orders, req, snap, stock0, created, applied, ledger, nreq>>

\* ---------------------------------------------------------- initial states
PriceOf == [p \in ProductIds |-> IF p = "A" THEN 2 ELSE 3]
NameOf == [p \in ProductIds |-> IF p = "A" THEN "nameA" ELSE "nameB"]

\* Cart collections that the cart operations can have built: no cart
\* document, or one cart of alice that is empty, holds one line, or holds a
\* line for A followed by one for B, priced at the catalogue price.
InitCarts ==
    LET line == {CartItem(p, 1, PriceOf[p]) : p \in ProductIds}
    IN  {<<>>} \cup
        {<<Cart("alice", items)>> :
            items \in {<<>>} \cup {<<a>> : a \in line}
                     \cup {ab \in line \X line : ab[1].product_id = "A" /\ ab[2].product_id = "B"}}

Init ==
    /\ \E s \in [ProductIds -> 0..MaxStock] :
          /\ products = [p \in ProductIds |-> Product(NameOf[p], PriceOf[p], s[p])]
          /\ stock0 = s
    /\ carts \in InitCarts
    /\ orders = <<>>
    /\ pc = [h \in Handlers |-> "idle"]
    /\ req = [h \in Handlers |-> NoReq]
    /\ loc = [h \in Handlers |-> NoLoc]
    /\ resp = [h \in Handlers |-> NoResponse]
    /\ snap = [h \in Handlers |-> NoSnap]
    /\ created = [h \in Handlers |-> 0]
    /\ applied = [h \in Handlers |-> <<>>]
    /\ ledger = <<>>
    /\ nreq = 0

\* ---------------------------------------------------------- specifications
\* One request at a time: a single handler serves checkout, cancel and
\* setStatus requests one after another.
Next ==
    \/ StartCheckout(1)
    \/ CheckoutGetCart(1)
    \/ CheckoutGetProduct(1)
    \/ CheckoutSaveOrder(1)
    \/ CheckoutUpdateStock(1)
    \/ StartCancel(1)
    \/ CancelGet(1)
    \/ CancelRestore(1)
    \/ StartSetStatus(1)
    \/ SetStatusGet(1)
    \/ SetStatusSave(1)

Spec == Init /\ [][Next]_vars

\* One request at a time, checkout and cancel requests only.
NextSeq ==
    \/ StartCheckout(1)
    \/ CheckoutGetCart(1)
    \/ CheckoutGetProduct(1)
    \/ CheckoutSaveOrder(1)
    \/ CheckoutUpdateStock(1)
    \/ StartCancel(1)
    \/ CancelGet(1)
    \/ CancelRestore(1)

SpecSeq == Init /\ [][NextSeq]_vars

\* Checkout and cancel requests served concurrently by the pool, interleaved
\* at every store access.
NextConc ==
    \E h \in Handlers :
        \/ StartCheckout(h)
        \/ CheckoutGetCart(h)
        \/ CheckoutGetProduct(h)
        \/ CheckoutSaveOrder(h)
        \/ CheckoutUpdateStock(h)
        \/ StartCancel(h)
        \/ CancelGet(h)
        \/ CancelRestore(h)

SpecConc == Init /\ [][NextConc]_vars

\* One request at a time; cancel requests come from any authenticated caller.
NextAuth ==
    \/ StartCheckout(1)
    \/ CheckoutGetCart(1)
    \/ CheckoutGetProduct(1)
    \/ CheckoutSaveOrder(1)
    \/ CheckoutUpdateStock(1)
    \/ StartCancelAny(1)
    \/ CancelGet(1)
    \/ CancelRestore(1)
    \/ StartSetStatus(1)
    \/ SetStatusGet(1)
    \/ SetStatusSave(1)

SpecAuth == Init /\ [][NextAuth]_vars

\* The requests of the cart router and checkouts of the cart, as served by
\* handler h.
CartStep(h) ==
    \/ StartAdd(h)
    \/ AddFind(h)
    \/ AddGetProduct(h)
    \/ AddSave(h)
    \/ StartUpdate(h)
    \/ UpdateFind(h)
    \/ UpdateSave(h)
    \/ StartRemove(h)
    \/ RemoveFind(h)
    \/ RemoveSave(h)
    \/ StartCheckoutOfCart(h)
    \/ CheckoutGetCart(h)
    \/ CheckoutGetProduct(h)
    \/ CheckoutSaveOrder(h)
    \/ CheckoutUpdateStock(h)

\* Every request of the order, cart and product routers, one at a time.
NextShop ==
    \/ StartCheckout(1)
    \/ CheckoutGetCart(1)
    \/ CheckoutGetProduct(1)
    \/ CheckoutSaveOrder(1)
    \/ CheckoutUpdateStock(1)
    \/ StartCancel(1)
    \/ CancelGet(1)
    \/ CancelRestore(1)
    \/ StartSetStatus(1)
    \/ SetStatusGet(1)
    \/ SetStatusSave(1)
    \/ StartAdd(1)
    \/ AddFind(1)
    \/ AddGetProduct(1)
    \/ AddSave(1)
    \/ StartUpdate(1)
    \/ UpdateFind(1)
    \/ UpdateSave(1)
    \/ StartRemove(1)
    \/ RemoveFind(1)
    \/ RemoveSave(1)
    \/ StartPutProduct(1)
    \/ PutProductGet(1)
    \/ PutProductSave(1)
    \/ StartDeleteProduct(1)
    \/ DeleteProductGet(1)
    \/ DeleteProductDelete(1)

SpecShop == Init /\ [][NextShop]_vars

\* Checkouts and the read requests of the order router, by any authenticated
\* caller, one request at a time.
NextRead ==
    \/ StartCheckout(1)
    \/ CheckoutGetCart(1)
    \/ CheckoutGetProduct(1)
    \/ CheckoutSaveOrder(1)
    \/ CheckoutUpdateStock(1)
    \/ StartGetOrder(1)
    \/ GetOrderGet(1)
    \/ StartListOrders(1)
    \/ ListOrdersFind(1)

SpecRead == Init /\ [][NextRead]_vars

\* Cart and order requests that carry any token, one request at a time.
NextToken ==
    \/ StartWithToken(1)
    \/ Authenticate(1)
    \/ ReadCartFind(1)
    \/ AddFind(1)
    \/ AddGetProduct(1)
    \/ AddSave(1)
    \/ RemoveFind(1)
    \/ RemoveSave(1)
    \/ CheckoutGetCart(1)
    \/ CheckoutGetProduct(1)
    \/ CheckoutSaveOrder(1)
    \/ CheckoutUpdateStock(1)
    \/ ListOrdersFind(1)
    \/ CancelGet(1)
    \/ CancelRestore(1)

SpecToken == Init /\ [][NextToken]_vars

\* Cart requests and checkouts, one request at a time.
NextCartSeq == CartStep(1)

SpecCartSeq == Init /\ [][NextCartSeq]_vars

\* Cart requests, reads of the cart and checkouts, one request at a time.
NextCartView ==
    \/ CartStep(1)
    \/ StartReadCart(1)
    \/ ReadCartFind(1)

SpecCartView == Init /\ [][NextCartView]_vars

\* Cart requests and checkouts served concurrently by the pool.
NextCart == \E h \in Handlers : CartStep(h)

SpecCart == Init /\ [][NextCart]_vars

\* A checkout of the cart, deletions of products and cancels of the order,
\* one request at a time, long enough for a cancel to be tried twice after a
\* product of the order has been deleted.
NextRetry ==
    \/ StartCheckoutOfCartWithin(1, MaxRetryRequests)
    \/ CheckoutGetCart(1)
    \/ CheckoutGetProduct(1)
    \/ CheckoutSaveOrder(1)
    \/ CheckoutUpdateStock(1)
    \/ StartDeleteProductWithin(1, MaxRetryRequests)
    \/ DeleteProductGet(1)
    \/ DeleteProductDelete(1)
    \/ StartCancelWithin(1, Customers, MaxRetryRequests)
    \/ CancelGet(1)
    \/ CancelRestore(1)

SpecRetry == Init /\ [][NextRetry]_vars

\* Checkouts that name a product once or twice, one request at a time.
NextRepeat ==
    \/ StartCheckout(1)
    \/ StartCheckoutRepeated(1)
    \/ CheckoutGetCart(1)
    \/ CheckoutGetProduct(1)
    \/ CheckoutSaveOrder(1)
    \/ CheckoutUpdateStock(1)

SpecRepeat == Init /\ [][NextRepeat]_vars

\* No handler is serving a checkout.
NoCheckoutInProgress == \A k \in Handlers : Idle(k) \/ req[k].kind # "checkout"

\* A checkout of the cart served by itself, then cancel and setStatus
\* requests served concurrently by the pool.
NextRace ==
    \/ (\A k \in Handlers : Idle(k)) /\ StartCheckoutOfCart(1)
    \/ CheckoutGetCart(1)
    \/ CheckoutGetProduct(1)
    \/ CheckoutSaveOrder(1)
    \/ CheckoutUpdateStock(1)
    \/ \E h \in Handlers :
          \/ NoCheckoutInProgress /\ StartCancel(h)
          \/ CancelGet(h)
          \/ CancelRestore(h)
          \/ NoCheckoutInProgress /\ StartSetStatus(h)
          \/ SetStatusGet(h)
          \/ SetStatusSave(h)

SpecRace == Init /\ [][NextRace]_vars

TypeOK ==
    /\ \A p \in ProductIds : products[p] = NoDoc \/ products[p].stock \in Int
    /\ \A h \in Handlers : pc[h] \in {"idle", "done", "co_get_cart", "co_get_product",
                                     "co_save_order", "co_update_stock", "ca_get",
                                     "ca_restore", "ss_get", "ss_save", "add_find",
                                     "add_get_product", "add_save", "up_find", "up_save",
                                     "rm_find", "rm_save", "pp_get", "pp_save", "dp_get",
                                     "dp_delete", "go_get", "lo_find", "rc_find", "auth"}
    /\ nreq \in 0..MaxRetryRequests

\* ========================================================== properties
RECURSIVE QtyOf(_, _)
\* total quantity of product p over the lines of an order
QtyOf(items, p) ==
    IF items = <<>> THEN 0
    ELSE (IF Head(items).product_id = p THEN Head(items).quantity ELSE 0)
         + QtyOf(Tail(items), p)

Reserving == {PENDING, CONFIRMED, SHIPPED, DELIVERED}

RECURSIVE Reserved(_, _)
\* quantity of p held by the orders that are pending, confirmed, shipped or delivered
Reserved(os, p) ==
    IF os = <<>> THEN 0
    ELSE (IF Head(os).status \in Reserving THEN QtyOf(Head(os).items, p) ELSE 0)
         + Reserved(Tail(os), p)

\* no request is being served
Quiescent == \A h \in Handlers : Idle(h)

Finished(h, kind) == pc[h] = "done" /\ req[h].kind = kind

IsInsufficientStock(r) ==
    /\ r.code = 400
    /\ r.exc.type = "ValueError"
    /\ r.exc.msg \in {"Insufficient stock for", "Insufficient stock"}

IsInvalidStateTransition(r, status) ==
    /\ r.code = 400
    /\ r.exc = Exc("ValueError", "Cannot cancel order with status", status)

\* C1 -- Stock conservation: whenever no request is in progress, after any
\* sequence of checkout and cancel requests served one at a time, the stock of
\* every product plus the quantity of it held by the pending, confirmed,
\* shipped and delivered orders equals its initial stock.
C1_StockConservation ==
    Quiescent =>
        \A p \in ProductIds : products[p].stock + Reserved(orders, p) = stock0[p]

InCart(cs, u, p) ==
    \E i \in 1..Len(get_cart(cs, u)) : get_cart(cs, u)[i].product_id = p

RECURSIVE NetDelta(_, _)
\* net stock change of product p in a list of saved stock changes
NetDelta(changes, p) ==
    IF changes = <<>> THEN 0
    ELSE (IF Head(changes).product_id = p THEN Head(changes).delta ELSE 0)
         + NetDelta(Tail(changes), p)

\* C2 -- No oversell: when every handler of the pool has concurrently served a
\* checkout of quantity q of the same product p (which is in the cart) and
\* the stock S of p is less than N*q, the number of checkouts that returned an
\* order is at most S div q, and with two handlers one of the two reports
\* InsufficientStock.
C2_NoOversell ==
    \A p \in ProductIds, q \in 1..MaxQty :
        ( /\ nreq = NumHandlers
          /\ \A h \in Handlers :
                /\ Finished(h, "checkout")
                /\ req[h].items = <<OrderItemCreate(p, q)>>
                /\ InCart(snap[h].carts, req[h].user, p)
          /\ stock0[p] < NumHandlers * q )
        => /\ Cardinality({h \in Handlers : resp[h].code = 201}) <= stock0[p] \div q
           /\ NumHandlers = 2 => \E h \in Handlers : IsInsufficientStock(resp[h])

\* C3 -- Under any interleaving of concurrent checkout and cancel handlers the
\* stored stock of every product is never negative.
C3_StockNonNegative == \A p \in ProductIds : products[p].stock >= 0

\* A checkout and a cancel that overlapped have both been through their
\* stock-update step.
C3_Witness ==
    /\ \E h, g \in Handlers :
          /\ Finished(h, "checkout") /\ resp[h].at = "co_update_stock"
          /\ Finished(g, "cancel") /\ resp[g].at = "ca_restore"
    /\ \A p \in ProductIds : products[p].stock >= 0

\* The case of C4: a finished checkout of two lines, both products in the
\* cart, enough stock for the first line and too little for the second.
C4_Case(h) ==
    /\ Finished(h, "checkout")
    /\ Len(req[h].items) = 2
    /\ \A i \in 1..2 : InCart(snap[h].carts, req[h].user, req[h].items[i].product_id)
    /\ snap[h].products[req[h].items[1].product_id].stock >= req[h].items[1].quantity
    /\ snap[h].products[req[h].items[2].product_id].stock < req[h].items[2].quantity

C4_Outcome(h) ==
    /\ resp[h].code = 400
    /\ products[req[h].items[1].product_id].stock
          = snap[h].products[req[h].items[1].product_id].stock
    /\ orders = snap[h].orders
    /\ carts = snap[h].carts

\* C4 -- Checkout atomicity: a checkout of two lines whose second line exceeds
\* its product's stock fails (HTTP 400); the first product's stock is what it
\* was before the request, no order was created and the cart is unchanged.
C4_CheckoutAtomicity == \A h \in Handlers : C4_Case(h) => C4_Outcome(h)

\* The stock test of the second line is what refused the request.
C4_Witness ==
    \E h \in Handlers :
        /\ C4_Case(h) /\ C4_Outcome(h)
        /\ IsInsufficientStock(resp[h])
        /\ resp[h].exc.arg = snap[h].products[req[h].items[2].product_id].name

\* C5 -- All-or-nothing: a checkout that failed in its stock-decrement step
\* reports InsufficientStock, has undone every stock change it had saved, has
\* left no order behind and has left the cart with its lines.
C5_AllOrNothing ==
    \A h \in Handlers :
        ( /\ Finished(h, "checkout")
          /\ resp[h].at = "co_update_stock"
          /\ resp[h].code # 201 )
        => /\ IsInsufficientStock(resp[h])
           /\ \A p \in ProductIds : NetDelta(applied[h], p) = 0
           /\ created[h] = 0
           /\ get_cart(carts, req[h].user) = get_cart(snap[h].carts, req[h].user)

\* The order a finished cancel request named, as it was when the request
\* began (the request named an order that existed then).
Named(h) == req[h].order_id \in 1..Len(snap[h].orders)
Before(h) == snap[h].orders[req[h].order_id]

\* C6 -- Cancellation reversibility: a checkout followed by a cancel of the
\* order it created leaves that order cancelled and every product's stock at
\* its value before the checkout; a cancel of an order that is already
\* cancelled fails with InvalidStateTransition and changes nothing.
C6_CancelReversible ==
    \A h \in Handlers :
        (Finished(h, "cancel") /\ Named(h)) =>
            /\ (nreq = 2 /\ Before(h).status = PENDING) =>
                  /\ orders[req[h].order_id].status = CANCELLED
                  /\ \A p \in ProductIds : products[p].stock = stock0[p]
            /\ Before(h).status = CANCELLED =>
                  /\ IsInvalidStateTransition(resp[h], CANCELLED)
                  /\ orders[req[h].order_id].status = CANCELLED
                  /\ products = snap[h].products

\* The case of C7: a finished cancel of an order that was not pending.
C7_Case(h, status) ==
    /\ Finished(h, "cancel")
    /\ Named(h)
    /\ Before(h).status = status

C7_Rejected(h) ==
    /\ IsInvalidStateTransition(resp[h], Before(h).status)
    /\ orders[req[h].order_id].status = Before(h).status
    /\ \A p \in ProductIds : products[p].stock = snap[h].products[p].stock

\* C7 -- cancel succeeds only on a pending order; on a confirmed, shipped,
\* delivered or cancelled order it fails with an error naming that status and
\* leaves the order's status and every product's stock unchanged.
C7_CancelOnlyPending ==
    \A h \in Handlers :
        (Finished(h, "cancel") /\ Named(h)) =>
            /\ resp[h].code = 200 => Before(h).status = PENDING
            /\ Before(h).status # PENDING => C7_Rejected(h)

C7_Witness == \E h \in Handlers : C7_Case(h, CONFIRMED) /\ C7_Rejected(h)

\* C8 -- Cancellation runs once: when two handlers have concurrently served a
\* cancel of the same order, pending when each began, the two together credited
\* every product with exactly the order's quantity, and at most one of them
\* reports success.
C8_CancelOnce ==
    \A h, g \in Handlers :
        ( /\ h # g
          /\ Finished(h, "cancel") /\ Finished(g, "cancel")
          /\ req[h].order_id = req[g].order_id
          /\ Named(h) /\ Named(g)
          /\ Before(h).status = PENDING /\ Before(g).status = PENDING )
        => /\ \A p \in ProductIds :
                 NetDelta(applied[h], p) + NetDelta(applied[g], p)
                    = QtyOf(Before(h).items, p)
           /\ ~ (resp[h].code = 200 /\ resp[g].code = 200)

Terminal == {CANCELLED, DELIVERED}

C10_LifecycleConservation ==
    Quiescent =>
        \A p \in ProductIds : stock0[p] - products[p].stock = Reserved(orders, p)

\* C11 -- No lost stock update: once every handler of the pool has completed
\* a checkout or cancel that ran concurrently with the others, the stock of
\* every product plus the quantity of it in the orders that are not cancelled
\* equals its initial stock.
C11_NoLostStockUpdate ==
    (\A h \in Handlers : pc[h] = "done") =>
        \A p \in ProductIds :
            products[p].stock + Reserved(orders, p) = stock0[p]

\* The caller of a finished cancel is neither the owner of the order it named
\* nor an admin.
C12_Stranger(h) ==
    /\ Finished(h, "cancel")
    /\ Named(h)
    /\ Before(h).user_id # req[h].user
    /\ ~ is_superuser(req[h].user)

\* C12 -- A cancel by an authenticated caller who is neither the order's
\* owner nor an admin is rejected as forbidden (403) and leaves the order's
\* status and every product's stock unchanged.
C12_CancelAuthorized ==
    \A h \in Handlers :
        C12_Stranger(h) =>
            /\ resp[h].code = 403
            /\ orders[req[h].order_id].status = Before(h).status
            /\ \A p \in ProductIds : products[p].stock = snap[h].products[p].stock

\* C13 -- setStatus is admin-only: a status-change request by a caller who is
\* not an admin is rejected with 401 and every order has the status it had
\* before the request.
C13_SetStatusAdminOnly ==
    \A h \in Handlers :
        (Finished(h, "setStatus") /\ ~ is_superuser(req[h].user)) =>
            /\ resp[h].code = 401
            /\ resp[h].exc.type = "UnauthorizedException"
            /\ orders = snap[h].orders

\* A caller who is not an admin asked for a status the order did not have.
C13_Witness ==
    \E h \in Handlers :
        /\ Finished(h, "setStatus") /\ ~ is_superuser(req[h].user)
        /\ Named(h)
        /\ req[h].new_status # Before(h).status
        /\ resp[h].code = 401
        /\ orders[req[h].order_id].status = Before(h).status

\* A finished checkout with at least one requested line whose cart, when the
\* request began, was not empty and held every requested product.
CheckoutOfCart(h) ==
    /\ Finished(h, "checkout")
    /\ req[h].items # <<>>
    /\ get_cart(snap[h].carts, req[h].user) # <<>>
    /\ \A i \in 1..Len(req[h].items) :
          InCart(snap[h].carts, req[h].user, req[h].items[i].product_id)

\* Every requested quantity was at most the product's stock when the request
\* began.
AllInStock(h) ==
    \A i \in 1..Len(req[h].items) :
        req[h].items[i].quantity <= snap[h].products[req[h].items[i].product_id].stock

RECURSIVE LinesTotal(_, _)
\* sum of quantity * catalogue price over requested lines
LinesTotal(items, prods) ==
    IF items = <<>> THEN 0
    ELSE Head(items).quantity * prods[Head(items).product_id].price
         + LinesTotal(Tail(items), prods)

\* C14 -- Successful checkout: when the cart is not empty, every requested
\* product is in the cart and every requested quantity is at most the stock,
\* checkout answers 201 and has created exactly one order, pending, with one
\* line per requested line carrying the requested quantity and a total equal
\* to the sum of quantity * catalogue price; the stock of each requested
\* product is reduced by the requested quantity and the cart has no lines.
C14_CheckoutSucceeds ==
    \A h \in Handlers :
        (CheckoutOfCart(h) /\ AllInStock(h)) =>
            /\ resp[h].code = 201
            /\ Len(orders) = Len(snap[h].orders) + 1
            /\ LET o == orders[Len(orders)]
               IN  /\ o.status = PENDING
                   /\ o.user_id = req[h].user
                   /\ Len(o.items) = Len(req[h].items)
                   /\ \A i \in 1..Len(o.items) :
                         /\ o.items[i].product_id = req[h].items[i].product_id
                         /\ o.items[i].quantity = req[h].items[i].quantity
                   /\ o.total = LinesTotal(req[h].items, snap[h].products)
            /\ \A p \in ProductIds :
                  products[p].stock = snap[h].products[p].stock - QtyOf(req[h].items, p)
            /\ get_cart(carts, req[h].user) = <<>>

IsEmptyCart(r) ==
    r.code = 400 /\ r.exc = Exc("ValueError", "Cart is empty", "")

\* C15 -- Checkout by a user whose cart has no lines, or who has no cart
\* document, fails with EmptyCart (400) whatever lines the request names; no
\* order is created and no product's stock changes.
C15_EmptyCart ==
    \A h \in Handlers :
        (Finished(h, "checkout") /\ get_cart(snap[h].carts, req[h].user) = <<>>) =>
            /\ IsEmptyCart(resp[h])
            /\ orders = snap[h].orders
            /\ products = snap[h].products
            /\ carts = snap[h].carts

\* A user with no cart document asked for a product that is in stock.
C15_Witness ==
    \E h \in Handlers :
        /\ Finished(h, "checkout")
        /\ find_one(snap[h].carts, req[h].user) = 0
        /\ req[h].items # <<>>
        /\ AllInStock(h)
        /\ IsEmptyCart(resp[h])
        /\ orders = snap[h].orders /\ products = snap[h].products

\* C16 -- Checkout naming at least one product that is not in the cart fails
\* with ItemNotInCart (400), naming the first such product, before any product
\* is read: no order is created and cart and stock are unchanged, even when
\* other requested lines are valid.
C16_ItemNotInCart ==
    \A h \in Handlers :
        ( /\ Finished(h, "checkout")
          /\ get_cart(snap[h].carts, req[h].user) # <<>>
          /\ \E i \in 1..Len(req[h].items) :
                ~ InCart(snap[h].carts, req[h].user, req[h].items[i].product_id) )
        => /\ resp[h].code = 400
           /\ resp[h].exc.type = "ValueError"
           /\ resp[h].exc.msg = "Item not in cart"
           /\ ~ InCart(snap[h].carts, req[h].user, resp[h].exc.arg)
           /\ resp[h].at = "co_get_cart"
           /\ orders = snap[h].orders
           /\ products = snap[h].products
           /\ carts = snap[h].carts

\* C17 -- Checkout in which some requested quantity exceeds the product's
\* stock fails with InsufficientStock (400) and changes nothing: cart, stock
\* and orders are what they were before the request.
C17_InsufficientStock ==
    \A h \in Handlers :
        (CheckoutOfCart(h) /\ ~ AllInStock(h)) =>
            /\ IsInsufficientStock(resp[h])
            /\ orders = snap[h].orders
            /\ products = snap[h].products
            /\ carts = snap[h].carts

\* number of lines of product p in a list of cart lines
LinesOf(items, p) == Cardinality({i \in 1..Len(items) : items[i].product_id = p})

\* A finished add_to_cart request that got as far as saving the cart.
AddSaved(h) == Finished(h, "add") /\ resp[h].at = "add_save"

\* C18 -- Cart merge: an add_to_cart of quantity q of product P that is saved
\* leaves exactly one line for P; when P already had a line the number of
\* lines is unchanged and the line's quantity has grown by q, otherwise one
\* line of quantity q was added; the lines of other products are untouched.
C18_CartMerge ==
    \A h \in Handlers :
        AddSaved(h) =>
            LET before == get_cart(snap[h].carts, req[h].user)
                after == get_cart(carts, req[h].user)
                P == req[h].product_id
            IN  /\ LinesOf(after, P) = 1
                /\ QtyOf(after, P) = QtyOf(before, P) + req[h].quantity
                /\ Len(after) = Len(before) + (IF InCart(snap[h].carts, req[h].user, P)
                                                 THEN 0 ELSE 1)
                /\ \A p \in ProductIds \ {P} :
                      /\ LinesOf(after, p) = LinesOf(before, p)
                      /\ QtyOf(after, p) = QtyOf(before, p)

\* P was added twice: the second add found P's line and the cart now holds
\* that one line with the sum of the quantities.
C18_Witness ==
    \E h \in Handlers :
        /\ AddSaved(h)
        /\ nreq = 2
        /\ LET before == get_cart(snap[h].carts, req[h].user)
               after == get_cart(carts, req[h].user)
           IN  /\ Len(before) = 1 /\ before[1].product_id = req[h].product_id
               /\ Len(after) = 1
               /\ after[1].quantity = before[1].quantity + req[h].quantity
               /\ after[1].quantity >= 2

\* C19 -- In every reachable state, under any interleaving of add_to_cart,
\* update_cart_item, remove, clear and checkout requests, every stored cart
\* holds at most one line per product.
C19_OneLinePerProduct ==
    \A c \in 1..Len(carts) :
        \A p \in ProductIds : LinesOf(carts[c].items, p) <= 1

\* Two add_to_cart requests for the same product overlapped and both saved.
C19_Witness ==
    \E h, g \in Handlers :
        /\ h # g
        /\ AddSaved(h) /\ AddSaved(g)
        /\ req[h].product_id = req[g].product_id
        /\ \E c \in 1..Len(carts) : LinesOf(carts[c].items, req[h].product_id) = 1

RECURSIVE OrderSum(_)
\* sum of quantity * price over an order's own lines
OrderSum(items) ==
    IF items = <<>> THEN 0
    ELSE Head(items).quantity * Head(items).price + OrderSum(Tail(items))

\* C20 -- Order immutability: no step of a setStatus, cancel, cart, checkout
\* or catalogue request (price change, rename, stock change, deletion)
\* removes an order or changes the owner, the lines or the total of an order
\* that exists, and the total of every order equals the sum of quantity *
\* price over its own lines.
C20_OrderImmutable ==
    [][/\ Len(orders') >= Len(orders)
       /\ \A o \in 1..Len(orders) :
             /\ orders'[o].items = orders[o].items
             /\ orders'[o].total = orders[o].total
             /\ orders'[o].user_id = orders[o].user_id
       /\ \A o \in 1..Len(orders') :
             orders'[o].total = OrderSum(orders'[o].items)]_vars

\* An order whose status was changed holds a line whose product has since
\* been repriced, renamed or deleted, and still carries its own values.
C20_Witness ==
    \E o \in 1..Len(orders) :
        /\ orders[o].status # PENDING
        /\ orders[o].total = OrderSum(orders[o].items)
        /\ \E i \in 1..Len(orders[o].items) :
              LET line == orders[o].items[i]
              IN  \/ products[line.product_id] = NoDoc
                  \/ products[line.product_id].price # line.price
                  \/ products[line.product_id].name # line.name

\* C21 -- Re-pricing at sale time: the unit price of every line of an order a
\* checkout created is the catalogue price of the product when the checkout
\* ran, and the order's total is the sum of quantity * that price, whatever
\* price the cart line carries.
C21_PricedAtCheckout ==
    \A h \in Handlers :
        (Finished(h, "checkout") /\ created[h] # 0) =>
            LET o == orders[created[h]]
            IN  /\ Len(o.items) = Len(req[h].items)
                /\ \A i \in 1..Len(o.items) :
                      o.items[i].price = snap[h].products[o.items[i].product_id].price
                /\ o.total = LinesTotal(req[h].items, snap[h].products)

\* The catalogue price of a product changed after it was put in the cart,
\* and the order carries the new price.
C21_Witness ==
    \E h \in Handlers :
        /\ Finished(h, "checkout") /\ created[h] # 0
        /\ \E i \in 1..Len(orders[created[h]].items) :
              LET line == orders[created[h]].items[i]
                  k == find_line(get_cart(snap[h].carts, req[h].user), line.product_id)
              IN  /\ k # 0
                  /\ get_cart(snap[h].carts, req[h].user)[k].price # line.price
                  /\ line.price = snap[h].products[line.product_id].price
                  /\ orders[created[h]].total = OrderSum(orders[created[h]].items)

RECURSIVE Credited(_, _, _)
\* what the cancels of order o have added to the stock of product p
Credited(entries, o, p) ==
    IF entries = <<>> THEN 0
    ELSE (IF /\ Head(entries).by = "cancel"
             /\ Head(entries).order_id = o
             /\ Head(entries).product_id = p
            THEN Head(entries).delta ELSE 0)
         + Credited(Tail(entries), o, p)

\* the update_product calls that cancels of order o have made and that raised
FailedRestores(entries, o) ==
    {k \in 1..Len(entries) :
        entries[k].by = "cancel" /\ entries[k].order_id = o /\ entries[k].delta = 0}

\* A finished cancel of an order that was pending, in which an update_product
\* call of the restore loop raised.
RestoreFailed(h) ==
    /\ Finished(h, "cancel")
    /\ Named(h)
    /\ Before(h).status = PENDING
    /\ resp[h].at = "ca_restore"
    /\ Len(ledger) \in FailedRestores(ledger, req[h].order_id)

C23_OneCartPerUser ==
    \A u \in Principals :
        Cardinality({c \in 1..Len(carts) : carts[c].user_id = u}) <= 1

\* C24 -- Every stored order has at least one line, every line has a
\* positive quantity and a positive price, and the total is positive; a
\* checkout that names no line while the cart is not empty stores no order,
\* changes no stock and leaves the cart as it was.
C24_OrderNonEmpty ==
    /\ \A o \in 1..Len(orders) :
          /\ Len(orders[o].items) >= 1
          /\ \A i \in 1..Len(orders[o].items) :
                orders[o].items[i].quantity > 0 /\ orders[o].items[i].price > 0
          /\ orders[o].total > 0
    /\ \A h \in Handlers :
          ( /\ Finished(h, "checkout")
            /\ req[h].items = <<>>
            /\ get_cart(snap[h].carts, req[h].user) # <<>> )
          => /\ resp[h].code >= 400
             /\ orders = snap[h].orders
             /\ products = snap[h].products
             /\ carts = snap[h].carts

\* A checkout with no lines got past the cart tests and was refused when the
\* Order was constructed with total 0.
C24_Witness ==
    \E h \in Handlers :
        /\ Finished(h, "checkout")
        /\ req[h].items = <<>>
        /\ get_cart(snap[h].carts, req[h].user) # <<>>
        /\ resp[h] = Response(400, OrderValidation(0), "co_get_cart")
        /\ orders = snap[h].orders /\ carts = snap[h].carts

\* The caller of a finished get-order request is neither the owner of the
\* order it named nor an admin.
C25_Stranger(h) ==
    /\ Finished(h, "getOrder")
    /\ Named(h)
    /\ Before(h).user_id # req[h].user
    /\ ~ is_superuser(req[h].user)

\* C25 -- Fetching one order: the order is returned (200) only to its owner
\* or to an admin; a caller who is neither gets 403; a request for an id no
\* order has gets 404.
C25_GetOrderAuthorized ==
    \A h \in Handlers :
        Finished(h, "getOrder") =>
            /\ resp[h].code = 200 =>
                  Named(h) /\ (Before(h).user_id = req[h].user \/ is_superuser(req[h].user))
            /\ C25_Stranger(h) => resp[h].code = 403
            /\ ~ Named(h) => resp[h].code = 404

\* A finished setStatus request of an admin that asked for confirmed, shipped
\* or delivered on an existing order that was pending, confirmed or shipped.
C26_Case(h) ==
    /\ Finished(h, "setStatus")
    /\ is_superuser(req[h].user)
    /\ Named(h)
    /\ Before(h).status \in {PENDING, CONFIRMED, SHIPPED}
    /\ req[h].new_status \in {CONFIRMED, SHIPPED, DELIVERED}

\* C26 -- An admin's setStatus request for confirmed, shipped or delivered on
\* an existing order that is pending, confirmed or shipped succeeds (200),
\* whatever the order between the two statuses; afterwards the order has the
\* requested status, and no stock, no cart and no line, total or owner of any
\* order has changed.
C26_SetStatusSucceeds ==
    \A h \in Handlers :
        C26_Case(h) =>
            /\ resp[h].code = 200
            /\ orders[req[h].order_id].status = req[h].new_status
            /\ products = snap[h].products
            /\ carts = snap[h].carts
            /\ Len(orders) = Len(snap[h].orders)
            /\ \A o \in 1..Len(orders) :
                  /\ orders[o].items = snap[h].orders[o].items
                  /\ orders[o].total = snap[h].orders[o].total
                  /\ orders[o].user_id = snap[h].orders[o].user_id
                  /\ o # req[h].order_id => orders[o] = snap[h].orders[o]

\* A finished DELETE /cart/ request that carried no product id: a request to
\* clear the cart.
IsClear(h) == Finished(h, "remove") /\ req[h].product_id = Absent

\* C27 -- Clearing the cart of a user who has no cart document, or whose cart
\* has no lines, succeeds (200) and leaves the user with an empty cart;
\* reading the cart of such a user succeeds as well.
C27_ClearEmptyCart ==
    \A h \in Handlers :
        get_cart(snap[h].carts, req[h].user) = <<>> =>
            /\ IsClear(h) => resp[h].code = 200 /\ get_cart(carts, req[h].user) = <<>>
            /\ Finished(h, "readCart") => resp[h].code = 200

\* A finished DELETE /cart/ request that named product P, which had a line in
\* the caller's cart when the request began.
C28_Case(h) ==
    /\ Finished(h, "remove")
    /\ req[h].product_id # Absent
    /\ req[h].product_id.type = "ObjectId"
    /\ InCart(snap[h].carts, req[h].user, req[h].product_id.val)

\* C28 -- remove_from_cart(user, P) on a cart that holds a line for P leaves
\* the cart without a line for P and with every other line as it was, and
\* changes no product and no order.
C28_RemoveLine ==
    \A h \in Handlers :
        C28_Case(h) =>
            LET before == get_cart(snap[h].carts, req[h].user)
                after == get_cart(carts, req[h].user)
                other(line) == line.product_id # req[h].product_id.val
            IN  /\ ~ InCart(carts, req[h].user, req[h].product_id.val)
                /\ after = SelectSeq(before, other)
                /\ products = snap[h].products
                /\ orders = snap[h].orders

\* C29 -- update_cart_item: when the caller's cart holds a line for the
\* product, the stored line gets the requested quantity and nothing else
\* changes (other lines, the line's price, other carts, products, orders);
\* when the caller has no cart or the cart has no line for the product, the
\* request fails and the stored carts are unchanged.
C29_UpdateCartItem ==
    \A h \in Handlers :
        Finished(h, "update") =>
            LET cid == find_one(snap[h].carts, req[h].user)
                before == get_cart(snap[h].carts, req[h].user)
                k == find_line(before, req[h].product_id)
            IN  /\ products = snap[h].products
                /\ orders = snap[h].orders
                /\ IF cid = 0 \/ k = 0
                     THEN resp[h].code >= 400 /\ carts = snap[h].carts
                     ELSE carts = [snap[h].carts EXCEPT
                                      ![cid].items[k].quantity = req[h].quantity]

\* A line's quantity was changed to the requested one, next to another line
\* that stayed as it was.
C29_Witness ==
    \E h \in Handlers :
        /\ Finished(h, "update")
        /\ resp[h].at = "up_save"
        /\ LET before == get_cart(snap[h].carts, req[h].user)
               after == get_cart(carts, req[h].user)
               k == find_line(before, req[h].product_id)
           IN  /\ Len(before) = 2 /\ Len(after) = 2
               /\ k # 0
               /\ before[k].quantity # req[h].quantity
               /\ after[k].quantity = req[h].quantity
               /\ after[3 - k] = before[3 - k]

\* The token of the request is missing or is not a valid token.
NoValidToken(h) ==
    req[h].token \in {Absent, [type |-> "undecodable"], [type |-> "no_sub"]}

\* C30 -- A request to view the cart, add to it, remove from it, check out,
\* list orders or cancel an order that carries no valid token is answered 401
\* and changes no cart, no order and no product.
C30_Unauthenticated ==
    \A h \in Handlers :
        (pc[h] = "done" /\ req[h].kind \in DOMAIN FirstStep /\ NoValidToken(h)) =>
            /\ resp[h].code = 401
            /\ resp[h].at = "auth"
            /\ carts = snap[h].carts
            /\ orders = snap[h].orders
            /\ products = snap[h].products

\* A checkout without a token was refused although the cart held lines that
\* were all in stock; so was an add of a product in stock.
C30_Witness ==
    \E h \in Handlers :
        /\ pc[h] = "done" /\ req[h].token = Absent
        /\ resp[h].code = 401
        /\ \/ /\ req[h].kind = "checkout"
              /\ req[h].items # <<>> /\ AllInStock(h)
              /\ orders = snap[h].orders
           \/ /\ req[h].kind = "add"
              /\ snap[h].products[req[h].product_id].stock >= 1
              /\ carts = snap[h].carts

\* A finished cart request that the claim C31 speaks of: a read of the cart,
\* an add or an update that got as far as saving the cart, or a removal that
\* named a product by its id.
ReturnsCart(h) ==
    \/ Finished(h, "readCart")
    \/ AddSaved(h)
    \/ Finished(h, "update") /\ resp[h].at = "up_save"
    \/ /\ Finished(h, "remove")
       /\ req[h].product_id # Absent
       /\ req[h].product_id.type = "ObjectId"
       /\ find_one(snap[h].carts, req[h].user) # 0

\* C31 -- get_cart answers with the lines of the caller's cart and a
\* total_price equal to the sum of price * quantity over those lines, at the
\* prices the lines carry (no lines and total 0 for a user without a cart);
\* so do add, update and remove for the cart they leave behind.
C31_CartTotal ==
    \A h \in Handlers :
        ReturnsCart(h) =>
            /\ resp[h].code = 200
            /\ resp[h].body.items = get_cart(carts, req[h].user)
            /\ resp[h].body.total_price = OrderSum(get_cart(carts, req[h].user))

\* Every stock decrement of the order that checkout h inserted has been saved.
AllDecremented(h) ==
    \A p \in ProductIds :
        NetDelta(applied[h], p) = 0 - QtyOf(orders[created[h]].items, p)

\* C32 -- Ordering inside checkout: in no reachable state has a checkout
\* inserted its order, or emptied the cart, while a stock decrement of one of
\* the order's lines is still outstanding or has failed.
C32_OrderAfterStock ==
    \A h \in Handlers :
        req[h].kind = "checkout" =>
            /\ created[h] # 0 => AllDecremented(h)
            /\ get_cart(carts, req[h].user) # get_cart(snap[h].carts, req[h].user)
                  => created[h] # 0 /\ AllDecremented(h)

\* Handler h has finished an admin's setStatus and handler g a cancel of the
\* same order, which was pending when each of the two requests began.
C33_Race(h, g) ==
    /\ h # g
    /\ Finished(h, "setStatus") /\ is_superuser(req[h].user)
    /\ Finished(g, "cancel")
    /\ req[h].order_id = req[g].order_id
    /\ Named(h) /\ Named(g)
    /\ Before(h).status = PENDING /\ Before(g).status = PENDING

C35_Case(h) ==
    /\ CheckoutOfCart(h)
    /\ Len(req[h].items) = 2
    /\ req[h].items[1].product_id = req[h].items[2].product_id

\* C35 -- A checkout whose lines name the same product twice is checked
\* against stock for the combined quantity: it fails with InsufficientStock
\* and leaves stock, cart and orders unchanged, or it succeeds (201) and the
\* product's stock is reduced by the combined quantity and not negative.
C35_CombinedQuantity ==
    \A h \in Handlers :
        C35_Case(h) =>
            LET p == req[h].items[1].product_id
            IN  \/ /\ IsInsufficientStock(resp[h])
                   /\ products = snap[h].products
                   /\ carts = snap[h].carts
                   /\ orders = snap[h].orders
                \/ /\ resp[h].code = 201
                   /\ products[p].stock
                         = snap[h].products[p].stock - QtyOf(req[h].items, p)
                   /\ products[p].stock >= 0

\* Handlers h and g have served, concurrently, the only two requests so far:
\* checkouts of the same user that each name the lines of the user's cart,
\* which was not empty.
C36_Case(h, g) ==
    /\ h # g
    /\ nreq = 2
    /\ Finished(h, "checkout") /\ Finished(g, "checkout")
    /\ req[h].user = req[g].user
    /\ req[h].items # <<>>
    /\ req[h].items = LinesOfCart(get_cart(snap[h].carts, req[h].user))
    /\ req[g].items = req[h].items

\* C36 -- A cart is converted into at most one order: of two concurrent
\* checkouts by one user of the same lines of the same non-empty cart, at
\* most one inserts an order and decrements stock, and the other fails with
\* EmptyCart.
C36_OneOrderPerCart ==
    \A h, g \in Handlers :
        C36_Case(h, g) =>
            /\ ~ (created[h] # 0 /\ created[g] # 0)
            /\ ~ (applied[h] # <<>> /\ applied[g] # <<>>)
            /\ created[h] # 0 => IsEmptyCart(resp[g])

\* C37 -- Every line of an order that a checkout inserted has at most the
\* quantity that the owner's cart held for the line's product when the
\* checkout read the cart.
C37_WithinCartQuantity ==
    \A h \in Handlers :
        (req[h].kind = "checkout" /\ created[h] # 0) =>
            \A i \in 1..Len(orders[created[h]].items) :
                orders[created[h]].items[i].quantity
                   <= QtyOf(get_cart(snap[h].carts, req[h].user),
                            orders[created[h]].items[i].product_id)

\* C38 -- add_to_cart refuses an add whenever the quantity already in the
\* cart for P plus the added quantity exceeds the stock of P, and leaves the
\* cart as it was; after an add that was saved the quantity of P's line is
\* at most the stock of P.
C38_AddWithinStock ==
    \A h \in Handlers :
        Finished(h, "add") =>
            LET P == req[h].product_id
                held == QtyOf(get_cart(snap[h].carts, req[h].user), P)
                stock == snap[h].products[P].stock
            IN  /\ held + req[h].quantity > stock =>
                      /\ resp[h].code >= 400
                      /\ carts = snap[h].carts
                /\ AddSaved(h) => QtyOf(get_cart(carts, req[h].user), P) <= stock

\* Handlers h and g have served, concurrently, the only two requests so far:
\* adds of the same product by the same user, both saved, to a cart that held
\* a line for the product.
C39_Case(h, g) ==
    /\ h # g
    /\ nreq = 2
    /\ AddSaved(h) /\ AddSaved(g)
    /\ req[h].user = req[g].user
    /\ req[h].product_id = req[g].product_id
    /\ InCart(snap[h].carts, req[h].user, req[h].product_id)
    /\ snap[g].carts = snap[h].carts

\* C39 -- No lost cart update: after two concurrent add_to_cart requests of
\* one user for product P, of quantities a and b, against a cart that holds
\* P with quantity q, the cart holds exactly one line for P, of quantity
\* q + a + b.
C39_NoLostCartUpdate ==
    \A h, g \in Handlers :
        C39_Case(h, g) =>
            LET P == req[h].product_id
                after == get_cart(carts, req[h].user)
            IN  /\ LinesOf(after, P) = 1
                /\ QtyOf(after, P)
                      = QtyOf(get_cart(snap[h].carts, req[h].user), P)
                        + req[h].quantity + req[g].quantity

====
